---- MODULE Spec2Model ----
(***************************************************************************)
(* Model of the donation REST service (Express + mongoose).  The           *)
(* repository holds two builds of the server, src/server.js and            *)
(* src/unnamed/part_000.  Their route handlers are the same text; they     *)
(* differ in the schema (part_000 declares cardCvc with `type: true`), in  *)
(* the CORS policy and in the root route.                                  *)
(*                                                                         *)
(* What the model takes from the libraries:                                *)
(*  - uuidv4() returns a value it never returned before (the n-th call     *)
(*    returns the n-th element of UuidPool);                               *)
(*  - request bodies are JSON objects (bodyParser.json has parsed them);   *)
(*  - the mongoose Schema constructor throws a TypeError for a path whose  *)
(*    `type` is not a schema type; thrown at the module's top level, it    *)
(*    ends the process before app.listen;                                  *)
(*  - save() validates the document before it sends anything to the store; *)
(*  - the collection outlives the process: at start it is empty or holds   *)
(*    one record of an earlier run.                                        *)
(* A string is a sequence of symbols: "Bearer " (with its blank), a blank  *)
(* " " and a whole token are one symbol each.                              *)
(*                                                                         *)
(* Spec runs every request; SpecAuth the admin traffic without donation    *)
(* submissions; SpecStore the donation traffic with admins who send the    *)
(* expected password and header.                                           *)
(***************************************************************************)
EXTENDS Integers, Sequences, FiniteSets, TLC

VARIABLES
    build,          \* which source file is running
    ADMIN_PASSWORD, \* process.env.ADMIN_PASSWORD, "undefined" when unset
    pc,             \* "loading", "listening" or "crashed"
    adminSessions,  \* the Set of valid admin tokens
    uuidCount,      \* number of uuidv4() calls so far
    store,          \* the donations collection, in insertion order
    now,            \* the clock read by Date.now
    inflight,       \* requests suspended at an await
    nreq,           \* number of requests received so far
    docCount,       \* number of documents given an _id so far
    last,           \* the latest event of a request (see Event)
    issued,         \* history: tokens returned by a 200 login, in order
    revoked,        \* history: tokens whose logout has been answered
    acked           \* history: ids of the donations answered 201

vars == <<build, ADMIN_PASSWORD, pc, adminSessions, uuidCount, store, now,
          inflight, nreq, docCount, last, issued, revoked, acked>>

\* ---------------------------------------------------------------- bounds
MaxReqs == 3
MaxTime == 1
MaxDocs == 2
MaxTokens == 2
MaxInflight == 2

\* ------------------------------------------------------------- constants
Builds == {"server.js", "part_000"}

Undefined == "undefined"
Null == "null"

\* timestamps are numbers; AbsentTs stands for a body without the field
AbsentTs == -2

NoAnswer == 0

StringFields == {"firstName", "lastName", "email", "address", "country",
                 "cardNumber", "cardExpiry", "cardCvc"}
RequiredFields == StringFields \cup {"amount"}

\* the schema type each build declares for a path
donationSchema(b, f) ==
    IF f = "timestamp" THEN "Date"
    ELSE IF f = "amount" THEN "Number"
    ELSE IF f = "cardCvc" /\ b = "part_000" THEN "true"
    ELSE "String"

\* the names mongoose.Schema.Types knows
SchemaTypes == {"String", "Number", "Date", "Boolean", "Buffer", "Mixed",
                "ObjectId", "Array", "Decimal128", "Map", "UUID", "BigInt"}

\* new mongoose.Schema(...) returns iff every path has a schema type
SchemaCompiles(b) ==
    \A f \in RequiredFields \cup {"timestamp"} : donationSchema(b, f) \in SchemaTypes

\* ------------------------------------------------------- donation model
\* values a submitted field can have: absent, null, "", a text, a number
Values == {Undefined, Null, "", "A", "10"}

CastError == "CastError"

\* the cast mongoose applies to a path's value when the document is built
Cast(type, v) ==
    IF v \in {Undefined, Null} THEN v
    ELSE IF type = "Number"
         THEN (IF v = "" THEN Null ELSE IF v = "10" THEN v ELSE CastError)
         ELSE v

\* mutant: only the Number path is required
CheckRequiredAmountOnly(type, v) ==
    type = "Number" => v \notin {Undefined, Null, CastError}

\* the `required: true` validator of a path
CheckRequired(type, v) ==
    IF type = "Number" THEN v \notin {Undefined, Null, CastError}
    ELSE v \notin {Undefined, Null, CastError, ""}

\* new Donation(req.body): cast every path, default the timestamp to Date.now
Donation(b, body, id, clock) ==
    [_id |-> id,
     timestamp |-> IF body.timestamp = AbsentTs THEN clock ELSE body.timestamp,
     f |-> [g \in RequiredFields |-> Cast(donationSchema(b, g), body.f[g])]]

\* document validation run by save(): every required path passes its validator
Validates(b, doc) ==
    \A g \in RequiredFields : CheckRequired(donationSchema(b, g), doc.f[g])

\* the request bodies submitted to POST /api/donations
FullFields == [g \in RequiredFields |-> IF g = "amount" THEN "10" ELSE "A"]

Timestamps == {AbsentTs} \cup (0..MaxTime)

Payloads ==
    {[timestamp |-> ts, f |-> FullFields] : ts \in Timestamps}
    \cup {[timestamp |-> AbsentTs, f |-> [FullFields EXCEPT ![g] = Undefined]] :
            g \in RequiredFields}
    \cup {[timestamp |-> AbsentTs, f |-> [FullFields EXCEPT !.firstName = v]] :
            v \in {Null, ""}}
    \cup {[timestamp |-> AbsentTs, f |-> [FullFields EXCEPT !.amount = v]] :
            v \in {Null, "", "A"}}

\* a body has all required fields when none is absent or null
HasAllRequired(body) ==
    \A g \in RequiredFields : body.f[g] \notin {Undefined, Null}

EmptyBody == [timestamp |-> AbsentTs, f |-> [g \in RequiredFields |-> Undefined]]

\* Donation.find({}).sort({timestamp: -1}): the orders the store may return,
\* every permutation of the collection that is descending by timestamp
IsDescending(s) == \A i, j \in 1..Len(s) : i < j => s[i].timestamp >= s[j].timestamp

Orderings(n) ==
    {p \in [1..n -> 1..n] : \A i, j \in 1..n : i # j => p[i] # p[j]}

\* mutant: the query without its sort, in insertion order
NaturalOrderFinds(coll) == {coll}

SortedFinds(coll) ==
    {[i \in 1..Len(coll) |-> coll[p[i]]] : p \in
        {q \in Orderings(Len(coll)) :
            IsDescending([i \in 1..Len(coll) |-> coll[q[i]]])}}

\* ----------------------------------------------------------- admin gate
UuidPool == <<"u1", "u2", "u3", "u4">>

\* uuidv4(): the n-th call
uuidv4(n) == UuidPool[n]

Tokens == {UuidPool[i] : i \in 1..MaxTokens}

NoHeader == <<>>

\* the Authorization headers clients send
Headers ==
    {NoHeader, <<"Bearer ">>, <<"Bearer ", "junk">>}
    \cup UNION {{<<"Bearer ", t>>, <<"Basic ", t>>, <<t>>,
                 <<"Bearer ", " ", t, " ">>, <<"Bearer ", "Bearer ", t>>} :
                t \in Tokens}

\* authHeader.startsWith('Bearer ')
StartsWithBearer(h) == Len(h) >= 1 /\ h[1] = "Bearer "

\* s.replace('Bearer ', ''): drop the first occurrence
RECURSIVE ReplaceBearer(_)
ReplaceBearer(s) ==
    IF s = <<>> THEN <<>>
    ELSE IF Head(s) = "Bearer " THEN Tail(s)
    ELSE <<Head(s)>> \o ReplaceBearer(Tail(s))

\* s.trim()
RECURSIVE TrimStart(_)
TrimStart(s) ==
    IF s # <<>> /\ Head(s) = " " THEN TrimStart(Tail(s)) ELSE s

RECURSIVE TrimEnd(_)
TrimEnd(s) ==
    IF s # <<>> /\ s[Len(s)] = " " THEN TrimEnd(SubSeq(s, 1, Len(s) - 1)) ELSE s

Trim(s) == TrimEnd(TrimStart(s))

\* adminSessions.has(token): the Set holds whole tokens
Has(sessions, token) == Len(token) = 1 /\ token[1] \in sessions

\* mutant: the gate without the registry lookup
authenticateAdminNoLookup(h, sessions) ==
    IF h = NoHeader \/ ~StartsWithBearer(h)
    THEN [status |-> 401, token |-> <<>>]
    ELSE LET token == Trim(ReplaceBearer(h))
         IN  IF Len(token) # 1
             THEN [status |-> 403, token |-> token]
             ELSE [status |-> 0, token |-> token]

\* authenticateAdmin: the status it answers, 0 when it calls next()
authenticateAdmin(h, sessions) ==
    IF h = NoHeader \/ ~StartsWithBearer(h)
    THEN [status |-> 401, token |-> <<>>]
    ELSE LET token == Trim(ReplaceBearer(h))
         IN  IF ~Has(sessions, token)
             THEN [status |-> 403, token |-> token]
             ELSE [status |-> 0, token |-> token]

\* ------------------------------------------------------------ the state
Routes == {"GET /", "POST /api/donations", "POST /api/admin/login",
           "POST /api/admin/logout", "GET /api/admin/donations"}

Gated == {"POST /api/admin/logout", "GET /api/admin/donations"}

Passwords == {Undefined, Null, "secret", "wrong"}

\* The latest event of a request.  `status` is the HTTP status answered in it
\* (NoAnswer while the request is suspended at an await, or when nothing
\* listens), `served` whether the process received the request, `ran`
\* whether the route's own handler was entered.  `bearer` and `credential`
\* describe the Authorization header the client sent, `full` says whether
\* the submitted body has all required fields, `password` is the submitted
\* password, `token` the token the server extracted or issued, `result` the
\* records answered, `mustSee` the donations answered 201 before the
\* request arrived.
Event(id, route, status, ran, served, h, full, password, token, result, mustSee) ==
    [id |-> id, route |-> route, status |-> status, ran |-> ran,
     served |-> served, bearer |-> StartsWithBearer(h),
     credential |-> IF StartsWithBearer(h) THEN Trim(ReplaceBearer(h)) ELSE <<>>,
     full |-> full, password |-> password, token |-> token,
     result |-> result, mustSee |-> mustSee]

NoEvent == Event(0, "none", NoAnswer, FALSE, FALSE, NoHeader, FALSE, Undefined,
                 <<>>, <<>>, {})

NoDoc == [_id |-> 0, timestamp |-> 0, f |-> [g \in RequiredFields |-> Undefined]]

\* a request suspended at `await`
Suspended(id, kind, phase, full, token, doc, result, mustSee, readLen) ==
    [id |-> id, kind |-> kind, phase |-> phase, full |-> full,
     token |-> token, doc |-> doc, result |-> result,
     mustSee |-> mustSee, readLen |-> readLen]

\* a request suspended at an await is told from the others by a slot number
FreeSlot(pending) ==
    CHOOSE n \in 1..(Cardinality(pending) + 1) : \A r \in pending : r.id # n

Init ==
    /\ build \in Builds
    /\ ADMIN_PASSWORD \in {Undefined, "secret"}
    /\ pc = "loading"
    /\ adminSessions = {}
    /\ uuidCount = 0
    /\ \/ store = <<>> /\ docCount = 0
       \/ \E ts \in 0..MaxTime :
             /\ store = <<Donation("server.js", [timestamp |-> ts, f |-> FullFields], 1, 0)>>
             /\ docCount = 1
    /\ now = 0
    /\ inflight = {}
    /\ nreq = 0
    /\ last = NoEvent
    /\ issued = <<>>
    /\ revoked = {}
    /\ acked = {}

\* the module's top level: build the schema and the model, register the
\* routes, listen.  A throwing Schema constructor ends the process.
Load ==
    /\ pc = "loading"
    /\ pc' = IF SchemaCompiles(build) THEN "listening" ELSE "crashed"
    /\ UNCHANGED <<build, docCount, ADMIN_PASSWORD, adminSessions, uuidCount, store, now,
                   inflight, nreq, last, issued, revoked, acked>>

\* a request sent to a process that never reached app.listen: no answer
Unserved(route, body) ==
    /\ pc = "crashed"
    /\ nreq < MaxReqs
    /\ nreq' = nreq + 1
    /\ last' = Event(0, route, NoAnswer, FALSE, FALSE, NoHeader,
                     HasAllRequired(body), Undefined, <<>>, <<>>, {})
    /\ UNCHANGED <<build, docCount, ADMIN_PASSWORD, pc, adminSessions, uuidCount, store,
                   now, inflight, issued, revoked, acked>>

\* GET /
GetRoot ==
    /\ pc = "listening"
    /\ nreq < MaxReqs
    /\ nreq' = nreq + 1
    /\ last' = Event(0, "GET /", 200, TRUE, TRUE, NoHeader, FALSE,
                     Undefined, <<>>, <<>>, {})
    /\ UNCHANGED <<build, docCount, ADMIN_PASSWORD, pc, adminSessions, uuidCount, store,
                   now, inflight, issued, revoked, acked>>

\* mutant: the login without its password check
LoginAnyPassword(password) ==
    /\ pc = "listening"
    /\ nreq < MaxReqs
    /\ nreq' = nreq + 1
    /\ uuidCount < MaxTokens
    /\ LET token == uuidv4(uuidCount + 1)
       IN  /\ uuidCount' = uuidCount + 1
           /\ adminSessions' = adminSessions \cup {token}
           /\ issued' = Append(issued, token)
           /\ last' = Event(0, "POST /api/admin/login", 200, TRUE, TRUE,
                            NoHeader, FALSE, password, <<token>>, <<>>, {})
    /\ UNCHANGED <<build, docCount, ADMIN_PASSWORD, pc, store, now, inflight,
                   revoked, acked>>

\* POST /api/admin/login
Login(password) ==
    /\ pc = "listening"
    /\ nreq < MaxReqs
    /\ nreq' = nreq + 1
    /\ IF password # ADMIN_PASSWORD
       THEN /\ last' = Event(0, "POST /api/admin/login", 401, TRUE, TRUE,
                             NoHeader, FALSE, password, <<>>, <<>>, {})
            /\ UNCHANGED <<adminSessions, uuidCount, issued>>
       ELSE /\ uuidCount < MaxTokens
            /\ LET token == uuidv4(uuidCount + 1)
               IN  /\ uuidCount' = uuidCount + 1
                   /\ adminSessions' = adminSessions \cup {token}
                   /\ issued' = Append(issued, token)
                   /\ last' = Event(0, "POST /api/admin/login", 200, TRUE,
                                    TRUE, NoHeader, FALSE, password, <<token>>,
                                    <<>>, {})
    /\ UNCHANGED <<build, docCount, ADMIN_PASSWORD, pc, store, now, inflight, revoked, acked>>

\* mutant: a logout that answers 200 and leaves the token in the registry
LogoutKeepsSession(h) ==
    /\ pc = "listening"
    /\ nreq < MaxReqs
    /\ nreq' = nreq + 1
    /\ LET gate == authenticateAdmin(h, adminSessions)
       IN  IF gate.status # 0
           THEN /\ last' = Event(0, "POST /api/admin/logout", gate.status,
                                 FALSE, TRUE, h, FALSE, Undefined, <<>>, <<>>, {})
                /\ UNCHANGED revoked
           ELSE /\ revoked' = revoked \cup {gate.token[1]}
                /\ last' = Event(0, "POST /api/admin/logout", 200, TRUE,
                                 TRUE, h, FALSE, Undefined, gate.token, <<>>, {})
    /\ UNCHANGED <<build, docCount, ADMIN_PASSWORD, pc, adminSessions, uuidCount,
                   store, now, inflight, issued, acked>>

\* mutant: a logout that empties the registry
LogoutClearsAll(h) ==
    /\ pc = "listening"
    /\ nreq < MaxReqs
    /\ nreq' = nreq + 1
    /\ LET gate == authenticateAdmin(h, adminSessions)
       IN  IF gate.status # 0
           THEN /\ last' = Event(0, "POST /api/admin/logout", gate.status,
                                 FALSE, TRUE, h, FALSE, Undefined, <<>>, <<>>, {})
                /\ UNCHANGED <<adminSessions, revoked>>
           ELSE /\ adminSessions' = {}
                /\ revoked' = revoked \cup {gate.token[1]}
                /\ last' = Event(0, "POST /api/admin/logout", 200, TRUE,
                                 TRUE, h, FALSE, Undefined, gate.token, <<>>, {})
    /\ UNCHANGED <<build, docCount, ADMIN_PASSWORD, pc, uuidCount, store, now,
                   inflight, issued, acked>>

\* POST /api/admin/logout, behind authenticateAdmin
Logout(h) ==
    /\ pc = "listening"
    /\ nreq < MaxReqs
    /\ nreq' = nreq + 1
    /\ LET gate == authenticateAdmin(h, adminSessions)
       IN  IF gate.status # 0
           THEN /\ last' = Event(0, "POST /api/admin/logout", gate.status,
                                 FALSE, TRUE, h, FALSE, Undefined, <<>>, <<>>, {})
                /\ UNCHANGED <<adminSessions, revoked>>
           ELSE /\ adminSessions' = adminSessions \ {gate.token[1]}
                /\ revoked' = revoked \cup {gate.token[1]}
                /\ last' = Event(0, "POST /api/admin/logout", 200, TRUE,
                                 TRUE, h, FALSE, Undefined, gate.token, <<>>, {})
    /\ UNCHANGED <<build, docCount, ADMIN_PASSWORD, pc, uuidCount, store, now, inflight,
                   issued, acked>>

\* GET /api/admin/donations, behind authenticateAdmin: up to the await
ListDonations(h) ==
    /\ pc = "listening"
    /\ nreq < MaxReqs
    /\ nreq' = nreq + 1
    /\ LET gate == authenticateAdmin(h, adminSessions)
       IN  IF gate.status # 0
           THEN /\ last' = Event(0, "GET /api/admin/donations",
                                 gate.status, FALSE, TRUE, h, FALSE, Undefined,
                                 <<>>, <<>>, {})
                /\ UNCHANGED inflight
           ELSE /\ Cardinality(inflight) < MaxInflight
                /\ inflight' = inflight \cup
                      {Suspended(FreeSlot(inflight), "find", "pending", FALSE, gate.token,
                                 NoDoc, <<>>, acked, 0)}
                /\ last' = Event(0, "GET /api/admin/donations", NoAnswer,
                                 TRUE, TRUE, h, FALSE, Undefined, gate.token,
                                 <<>>, acked)
    /\ UNCHANGED <<build, docCount, ADMIN_PASSWORD, pc, adminSessions, uuidCount, store,
                   now, issued, revoked, acked>>

\* the store runs the query of a suspended listing, or fails
FindExec(r) ==
    /\ r \in inflight /\ r.kind = "find" /\ r.phase = "pending"
    /\ \/ \E found \in SortedFinds(store) :
             inflight' = (inflight \ {r}) \cup
                 {[r EXCEPT !.phase = "resolved", !.result = found,
                            !.readLen = Len(store)]}
       \/ inflight' = (inflight \ {r}) \cup {[r EXCEPT !.phase = "rejected"]}
    /\ UNCHANGED <<build, docCount, ADMIN_PASSWORD, pc, adminSessions, uuidCount, store,
                   now, nreq, last, issued, revoked, acked>>

\* mutant: a listing that looks its token up again when it resumes
FindSettledRecheck(r) ==
    /\ r \in inflight /\ r.kind = "find" /\ r.phase # "pending"
    /\ inflight' = inflight \ {r}
    /\ last' = Event(0, "GET /api/admin/donations",
                     IF ~Has(adminSessions, r.token) THEN 403
                     ELSE IF r.phase = "resolved" THEN 200 ELSE 500,
                     TRUE, TRUE, <<"Bearer ">> \o r.token, FALSE, Undefined,
                     r.token, r.result, r.mustSee)
    /\ UNCHANGED <<build, docCount, ADMIN_PASSWORD, pc, adminSessions, uuidCount,
                   store, now, nreq, issued, revoked, acked>>

\* the listing resumes after its await: res.json or the catch block
FindSettled(r) ==
    /\ r \in inflight /\ r.kind = "find" /\ r.phase # "pending"
    /\ inflight' = inflight \ {r}
    /\ last' = Event(0, "GET /api/admin/donations",
                     IF r.phase = "resolved" THEN 200 ELSE 500, TRUE, TRUE,
                     <<"Bearer ">> \o r.token, FALSE, Undefined, r.token,
                     r.result, r.mustSee)
    /\ UNCHANGED <<build, docCount, ADMIN_PASSWORD, pc, adminSessions, uuidCount, store,
                   now, nreq, issued, revoked, acked>>

\* POST /api/donations, up to the await; `clock` is what Date.now returns,
\* never less than it returned before.  The document is built and save()
\* validates it before anything is sent to the store; a ValidationError is
\* delivered when the handler resumes
PostDonations(body, clock) ==
    /\ pc = "listening"
    /\ nreq < MaxReqs
    /\ Cardinality(inflight) < MaxInflight
    /\ docCount < MaxDocs
    /\ nreq' = nreq + 1
    /\ now' = clock
    /\ LET newDonation == Donation(build, body, docCount + 1, clock)
       IN  IF Validates(build, newDonation)
           THEN /\ docCount' = docCount + 1
                /\ inflight' = inflight \cup
                      {Suspended(FreeSlot(inflight), "save", "pending",
                                 HasAllRequired(body), <<>>, newDonation, <<>>,
                                 {}, 0)}
           ELSE /\ docCount' = docCount
                /\ inflight' = inflight \cup
                      {Suspended(FreeSlot(inflight), "save", "rejected",
                                 HasAllRequired(body), <<>>, NoDoc, <<>>, {}, 0)}
    /\ last' = Event(0, "POST /api/donations", NoAnswer, TRUE, TRUE,
                     NoHeader, HasAllRequired(body), Undefined, <<>>, <<>>, {})
    /\ UNCHANGED <<build, ADMIN_PASSWORD, pc, adminSessions, uuidCount, store,
                   issued, revoked, acked>>

\* mutant: an insert that overwrites the oldest record
SaveExecReplace(r) ==
    /\ r \in inflight /\ r.kind = "save" /\ r.phase = "pending"
    /\ \/ /\ store' = IF store = <<>> THEN <<r.doc>>
                       ELSE <<r.doc>> \o Tail(store)
          /\ inflight' = (inflight \ {r}) \cup {[r EXCEPT !.phase = "resolved"]}
       \/ /\ inflight' = (inflight \ {r}) \cup
                            {[r EXCEPT !.phase = "rejected", !.doc = NoDoc]}
          /\ UNCHANGED store
    /\ UNCHANGED <<build, docCount, ADMIN_PASSWORD, pc, adminSessions, uuidCount,
                   now, nreq, last, issued, revoked, acked>>

\* the store performs the insert of a validated document, or refuses it
SaveExec(r) ==
    /\ r \in inflight /\ r.kind = "save" /\ r.phase = "pending"
    /\ \/ /\ store' = Append(store, r.doc)
          /\ inflight' = (inflight \ {r}) \cup {[r EXCEPT !.phase = "resolved"]}
       \/ /\ inflight' = (inflight \ {r}) \cup
                            {[r EXCEPT !.phase = "rejected", !.doc = NoDoc]}
          /\ UNCHANGED store
    /\ UNCHANGED <<build, docCount, ADMIN_PASSWORD, pc, adminSessions, uuidCount, now,
                   nreq, last, issued, revoked, acked>>

\* the submission resumes after its await: 201 or the catch block
SaveSettled(r) ==
    /\ r \in inflight /\ r.kind = "save" /\ r.phase # "pending"
    /\ inflight' = inflight \ {r}
    /\ last' = Event(r.doc._id, "POST /api/donations",
                     IF r.phase = "resolved" THEN 201 ELSE 500, TRUE, TRUE,
                     NoHeader, r.full, Undefined, <<>>, <<>>, {})
    /\ acked' = IF r.phase = "resolved" THEN acked \cup {r.doc._id} ELSE acked
    /\ UNCHANGED <<build, docCount, ADMIN_PASSWORD, pc, adminSessions, uuidCount, store,
                   now, nreq, issued, revoked>>

Next ==
    \/ Load
    \/ \E route \in Routes, body \in Payloads : Unserved(route, body)
    \/ GetRoot
    \/ \E password \in Passwords : Login(password)
    \/ \E h \in Headers : Logout(h)
    \/ \E h \in Headers : ListDonations(h)
    \/ \E r \in inflight : FindExec(r)
    \/ \E r \in inflight : FindSettled(r)
    \/ \E body \in Payloads, clock \in now..MaxTime : PostDonations(body, clock)
    \/ \E r \in inflight : SaveExec(r)
    \/ \E r \in inflight : SaveSettled(r)

Spec == Init /\ [][Next]_vars

\* the admin traffic alone: every request but the donation submissions
NextAuth ==
    \/ Load
    \/ \E route \in Routes \ {"POST /api/donations"} : Unserved(route, EmptyBody)
    \/ GetRoot
    \/ \E password \in Passwords : Login(password)
    \/ \E h \in Headers : Logout(h)
    \/ \E h \in Headers : ListDonations(h)
    \/ \E r \in inflight : FindExec(r)
    \/ \E r \in inflight : FindSettled(r)

SpecAuth == Init /\ [][NextAuth]_vars

\* the donation traffic, with admins who send the password and the
\* "Bearer <token>" header the service expects
NextStore ==
    \/ Load
    \/ \E body \in Payloads : Unserved("POST /api/donations", body)
    \/ GetRoot
    \/ Login(ADMIN_PASSWORD)
    \/ \E t \in Tokens : Logout(<<"Bearer ", t>>)
    \/ \E t \in Tokens : ListDonations(<<"Bearer ", t>>)
    \/ \E r \in inflight : FindExec(r)
    \/ \E r \in inflight : FindSettled(r)
    \/ \E body \in Payloads, clock \in now..MaxTime : PostDonations(body, clock)
    \/ \E r \in inflight : SaveExec(r)
    \/ \E r \in inflight : SaveSettled(r)

SpecStore == Init /\ [][NextStore]_vars

\* ---------------------------------------------------------------- claims
Range(s) == {s[i] : i \in 1..Len(s)}

\* a new request has just been received by the listening process
Arrives == nreq' = nreq + 1 /\ last'.served

\* C1: a gated request that carries a token returned by a successful login
\* passes the gate (is not answered 401 or 403) as long as no logout with
\* that token has completed, and is answered 403 once one has.
C1_TokenValidUntilLogout ==
    [][(/\ Arrives
        /\ last'.route \in Gated
        /\ last'.bearer
        /\ Len(last'.credential) = 1
        /\ last'.credential[1] \in Range(issued))
       => IF last'.credential[1] \in revoked
          THEN last'.status = 403 /\ ~last'.ran
          ELSE last'.status \notin {401, 403} /\ last'.ran]_vars

C1_Witness ==
    /\ last.route = "GET /api/admin/donations"
    /\ last.status = 403
    /\ Len(last.credential) = 1
    /\ last.credential[1] \in Range(issued) \cap revoked

\* C2: the handler of a gated route is entered only for a request whose
\* Authorization header starts with "Bearer " and whose token is in the
\* session registry when the gate checks it; a missing or non-Bearer header
\* is answered 401 and a Bearer token not in the registry 403, and in both
\* cases the handler does nothing.
C2_GateBeforeHandler ==
    [][(Arrives /\ last'.route \in Gated)
       => LET known == /\ last'.bearer
                       /\ Len(last'.credential) = 1
                       /\ last'.credential[1] \in adminSessions
          IN  /\ last'.ran <=> known
              /\ ~last'.bearer => last'.status = 401
              /\ (last'.bearer /\ ~known) => last'.status = 403
              /\ ~known => /\ adminSessions' = adminSessions
                           /\ inflight' = inflight
                           /\ store' = store]_vars

C2_Witness ==
    /\ last.route = "POST /api/admin/logout"
    /\ last.bearer
    /\ last.credential = <<"junk">>
    /\ last.status = 403
    /\ adminSessions # {}

\* C3: a token enters the session registry only through a login whose
\* submitted password equals the admin password, which answers 200 with that
\* token; a login with any other password is answered 401 and leaves the
\* registry unchanged.
C3_TokenOnlyByPassword ==
    [][/\ ~(adminSessions' \subseteq adminSessions)
          => /\ Arrives
             /\ last'.route = "POST /api/admin/login"
             /\ last'.password = ADMIN_PASSWORD
             /\ last'.status = 200
             /\ Len(last'.token) = 1
             /\ adminSessions' = adminSessions \cup {last'.token[1]}
       /\ (/\ Arrives
           /\ last'.route = "POST /api/admin/login"
           /\ last'.password # ADMIN_PASSWORD)
          => /\ last'.status = 401
             /\ adminSessions' = adminSessions]_vars

C3_Witness ==
    /\ ADMIN_PASSWORD = "secret"
    /\ last.route = "POST /api/admin/login"
    /\ last.password = "wrong"
    /\ last.status = 401
    /\ adminSessions # {}

\* C4: every POST /api/donations whose payload has all required fields adds
\* exactly one record to the store and is answered 201, and every admin
\* listing that starts after that answer includes the record.
C4_FullPayloadStored ==
    /\ (/\ last.route = "POST /api/donations"
        /\ last.full
        /\ (~last.served \/ last.status # NoAnswer))
       => /\ last.status = 201
          /\ Cardinality({i \in 1..Len(store) : store[i]._id = last.id}) = 1
    /\ (last.route = "GET /api/admin/donations" /\ last.status = 200)
       => \A id \in last.mustSee : \E i \in 1..Len(last.result) :
              last.result[i]._id = id

\* C5: a POST /api/donations whose payload lacks a required field is
\* answered 500 and persists nothing, so every record in the store has all
\* required fields.
C5_PartialPayloadRejected ==
    /\ (/\ last.route = "POST /api/donations"
        /\ last.served
        /\ last.status # NoAnswer
        /\ ~last.full)
       => last.status = 500 /\ last.id = 0
    /\ \A i \in 1..Len(store) : \A g \in RequiredFields :
          store[i].f[g] \notin {Undefined, Null, CastError}
    /\ \A r \in inflight : (r.kind = "save" /\ ~r.full) => r.phase = "rejected"

C5_Witness ==
    /\ last.route = "POST /api/donations"
    /\ ~last.full
    /\ last.status = 500
    /\ Len(store) = 1

\* C6: a successful GET /api/admin/donations returns all stored records,
\* newest first, whatever the order in which they were inserted.
NewestFirst(s) ==
    \A i \in 1..(Len(s) - 1) : s[i].timestamp >= s[i + 1].timestamp

AllOf(s, n) ==
    /\ Len(s) = n
    /\ \A i \in 1..n : \E j \in 1..n : s[j] = store[i]

C6_ListingNewestFirst ==
    /\ \A r \in inflight : (r.kind = "find" /\ r.phase = "resolved")
          => NewestFirst(r.result) /\ AllOf(r.result, r.readLen)
    /\ (last.route = "GET /api/admin/donations" /\ last.status = 200)
          => /\ NewestFirst(last.result)
             /\ \E n \in 0..Len(store) : AllOf(last.result, n)

C6_Witness ==
    /\ last.route = "GET /api/admin/donations"
    /\ last.status = 200
    /\ Len(last.result) = 2
    /\ last.result[1] = store[2]
    /\ last.result[2] = store[1]
    /\ last.result[1].timestamp > last.result[2].timestamp

\* C7: any two tokens issued by successful logins are distinct, several may
\* be valid at once, and a logout removes exactly its own token: every
\* other issued and not revoked token stays in the registry.
C7_TokensIndependent ==
    /\ \A i, j \in 1..Len(issued) : i # j => issued[i] # issued[j]
    /\ adminSessions = Range(issued) \ revoked

C7_Witness ==
    /\ last.route = "POST /api/admin/logout"
    /\ last.status = 200
    /\ Len(issued) = 2
    /\ Cardinality(revoked) = 1
    /\ Cardinality(adminSessions) = 1

\* C8: no step of any request updates or deletes a stored record: each
\* record stays in the store with the same field values.
C8_StoreOnlyGrows ==
    [][/\ Len(store') >= Len(store)
       /\ \A i \in 1..Len(store) : store'[i] = store[i]]_vars

C8_Witness ==
    /\ Len(store) = 2
    /\ store[1]._id = 1
    /\ last.route = "POST /api/admin/logout"
    /\ last.status = 200

\* C9: the token of a listing is checked once, at the gate: a listing that
\* passed the gate stays suspended until it is answered 200 with the records
\* read, or 500 when the read failed, even when a logout with its token
\* completes in between.
C9_NoRecheckAfterGate ==
    [][\A r \in inflight : r.kind = "find" =>
          \/ r \in inflight'
          \/ /\ r.phase = "pending"
             /\ \E q \in inflight' : q.id = r.id /\ q.kind = "find"
                                     /\ q.token = r.token /\ q.phase # "pending"
          \/ /\ r.phase # "pending"
             /\ last'.route = "GET /api/admin/donations"
             /\ last'.token = r.token
             /\ last'.status = (IF r.phase = "resolved" THEN 200 ELSE 500)
             /\ last'.result = r.result]_vars

C9_Witness ==
    /\ last.route = "GET /api/admin/donations"
    /\ last.status = 200
    /\ Len(last.token) = 1
    /\ last.token[1] \in revoked

\* C10: with no admin password configured no login is issued a token; a
\* login whose body has no password field is answered 401 and adds nothing
\* to the session registry.
C10_NoPasswordNoToken ==
    ADMIN_PASSWORD = Undefined
       => /\ issued = <<>>
          /\ adminSessions = {}
          /\ (last.route = "POST /api/admin/login" /\ last.password = Undefined)
                => last.status = 401

====
